---- MODULE Spec2Model ----
(***************************************************************************)
(* logtee.h: a header-only logging "tee".  The process-wide state of the   *)
(* header (sink list, level registry, prefix callback, line buffer) and    *)
(* the C library state it drives (atexit registrations, streams closed,    *)
(* process termination) are the variables; every public entry point is an  *)
(* action.  Each entry point is a state transformer over a record of the   *)
(* whole state, so that the nested calls of the source (LOG_teefile ->     *)
(* PLOGW -> LOG, LOG_addlevel -> LOGW -> LOG, LOGF -> LOG, exit ->         *)
(* _LOG_cleanup) are part of the calling action.                           *)
(***************************************************************************)
EXTENDS Integers, Sequences, FiniteSets, TLC

VARIABLES
    _fplist,           \* the sink list: slot 1 is the embedded head
    _loglevels,        \* the registry pointer: null, or the array it points to
    _numlevels,        \* the registry's entry count
    _prefix_callback,  \* NULL or the callback
    logline,           \* LOG's static line buffer is allocated
    atexits,           \* how many times atexit(_LOG_cleanup) was called
    closed,            \* per stream: how many times fclose was called on it
    pc,                \* "running", "exited" (exit ran), "crashed"
    status,            \* the argument exit() was called with
    faults,            \* calls so far in which an allocation or a stream call failed
    last               \* what the last call did (its writes and diagnostics)

vars == <<_fplist, _loglevels, _numlevels, _prefix_callback, logline,
          atexits, closed, pc, status, faults, last>>

-----------------------------------------------------------------------------
(* Bounds of the model *)

MaxSlots == 2      \* slots of the sink list, head included
MaxFaults == 1     \* calls in which an allocation or a stream call fails

(* Program constants *)

STDIN_FILENO == 0
STDOUT_FILENO == 1
STDERR_FILENO == 2
EXIT_SUCCESS == 0
EXIT_FAILURE == 1
Debug == -1
Info == 0
Warning == 1
Error == 2
Fatal == 3

NULL == "NULL"
Files == {"log.txt"}                       \* streams the facility owns
Streams == {"stdout", "stderr"} \cup Files  \* FILE* values
Sinks ==                                    \* sinks the caller registers
    { [fp |-> "stdout", level |-> Info],
      [fp |-> "stderr", level |-> Fatal],
      [fp |-> "log.txt", level |-> Info] }
Thresholds == {k.level : k \in Sinks}
Custom == Fatal + 4                         \* a priority that is not built in
LogLevels == {Warning, Fatal, Custom}       \* priorities the caller logs at
NewLevels ==                                \* entries the caller registers, in this order
    << [level |-> Warning, prefix |-> "(XX): "],
       [level |-> Warning, prefix |-> "(YY): "] >>
BadPrefixes == {NULL, ""}
Indeterminate == "<indeterminate>"          \* content of memory never written
IndeterminateLevels == {Warning, Custom + 1}

fileno(fp) ==
    CASE fp = "stdout" -> STDOUT_FILENO
      [] fp = "stderr" -> STDERR_FILENO
      [] OTHER -> STDERR_FILENO + 1   \* an opened file: some descriptor above 2

_builtin_levels ==
    << [level |-> Debug, prefix |-> "(DD): "],
       [level |-> Info, prefix |-> "(II): "],
       [level |-> Warning, prefix |-> "(WW): "],
       [level |-> Error, prefix |-> "(EE): "],
       [level |-> Fatal, prefix |-> "(FF): "] >>

-----------------------------------------------------------------------------
(* The state as one record, and the trace of one call *)

NoTrace ==
    [writes |-> <<>>, diag |-> <<>>, formatted |-> 0, cbcalls |-> 0,
     cleanups |-> 0, failures |-> 0, customs |-> 0, undefined |-> 0,
     enomem |-> 0]

Cur ==
    [fplist |-> _fplist, loglevels |-> _loglevels, numlevels |-> _numlevels,
     prefix_callback |-> _prefix_callback, logline |-> logline,
     atexits |-> atexits, closed |-> closed, pc |-> pc, status |-> status,
     tr |-> NoTrace]

Commit(s, op, level, arg) ==
    /\ _fplist' = s.fplist
    /\ _loglevels' = s.loglevels
    /\ _numlevels' = s.numlevels
    /\ _prefix_callback' = s.prefix_callback
    /\ logline' = s.logline
    /\ atexits' = s.atexits
    /\ closed' = s.closed
    /\ pc' = s.pc
    /\ status' = s.status
    /\ faults' = IF s.tr.failures > 0 THEN faults + 1 ELSE faults
    /\ last' = [op |-> op, level |-> level, arg |-> arg, tr |-> s.tr]

Init ==
    /\ _fplist = << [fp |-> NULL, level |-> 0] >>
    /\ _loglevels = [null |-> TRUE, arr |-> <<>>]
    /\ _numlevels = 0
    /\ _prefix_callback = NULL
    /\ logline = FALSE
    /\ atexits = 0
    /\ closed = [f \in Streams |-> 0]
    /\ pc = "running"
    /\ status = EXIT_SUCCESS
    /\ faults = 0
    /\ last = [op |-> "start", level |-> 0, arg |-> "", tr |-> NoTrace]

-----------------------------------------------------------------------------
(* LOG, src/logtee.h:111-153.  `failing` is the set of allocation sites     *)
(* whose allocation returns NULL during this call; `msg` names the call      *)
(* site of the message.                                                      *)

\* malloc_fail: the diagnostic goes to stderr itself, not through the sinks
malloc_fail(s, func) ==
    [s EXCEPT !.tr.diag = Append(@, func)]

\* a library call of this call failed (the environment's doing)
failure(s) ==
    [s EXCEPT !.tr.failures = @ + 1]

\* malloc or realloc returned NULL in this call
enomem(s) ==
    [failure(s) EXCEPT !.tr.enomem = @ + 1]

\* mutant: the registry is seeded but the exit hook is not registered
LOG_init_nohook(s, failing) ==
    IF "levels" \in failing
    THEN s
    ELSE [s EXCEPT !.loglevels = [null |-> FALSE, arr |-> _builtin_levels],
                   !.numlevels = Len(_builtin_levels)]

\* lines 113-119: lazy initialisation, keyed on the registry pointer alone
LOG_init(s, failing) ==
    LET a == [s EXCEPT !.atexits = @ + 1]
    IN  IF "levels" \in failing
        THEN a
        ELSE [a EXCEPT !.loglevels = [null |-> FALSE, arr |-> _builtin_levels],
                       !.numlevels = Len(_builtin_levels)]

\* mutant: the scan stops at the first entry whose level matches
RECURSIVE llev_first(_, _, _, _, _)
llev_first(arr, n, level, i, llev) ==
    IF i > n
    THEN llev
    ELSE IF arr[i].level = level
    THEN i
    ELSE llev_first(arr, n, level, i + 1, llev)

\* lines 136-139: the scan keeps the last entry whose level matches; 0 is NULL
RECURSIVE llev_scan(_, _, _, _, _)
llev_scan(arr, n, level, i, llev) ==
    IF i > n
    THEN llev
    ELSE llev_scan(arr, n, level, i + 1,
                   IF arr[i].level = level THEN i ELSE llev)

\* lines 136-139 and the operand of line 145: the level prefix of the line
LOG_prefix(s, level) ==
    LET llev == IF s.loglevels.null
                THEN 0
                ELSE llev_scan(s.loglevels.arr, s.numlevels, level, 1, 0)
    IN  IF llev = 0 THEN "" ELSE s.loglevels.arr[llev].prefix

\* mutant: the threshold test off by one (a slot at exactly the level of the
\* message is skipped)
LOG_skip_strict(lfp, level) ==
    lfp.fp = NULL \/ lfp.level >= level

\* line 142: a slot is skipped when it is empty or its threshold is above
\* the level of the message
LOG_skip(lfp, level) ==
    lfp.fp = NULL \/ lfp.level > level

\* lines 141-147: one fprintf per admitted slot; the callback is an operand
\* of that fprintf, so it is called once for each of them
RECURSIVE LOG_tee(_, _, _, _, _)
LOG_tee(s, i, level, prefix, msg) ==
    IF i > Len(s.fplist)
    THEN s
    ELSE IF LOG_skip(s.fplist[i], level)
    THEN LOG_tee(s, i + 1, level, prefix, msg)
    ELSE LET n  == IF s.prefix_callback = NULL THEN 0 ELSE s.tr.cbcalls + 1
             fp == s.fplist[i].fp
             w  == [slot |-> i, fp |-> fp, cb |-> n, prefix |-> prefix,
                    level |-> level, msg |-> msg,
                    live |-> s.pc = "running" /\ s.closed[fp] = 0]
         IN  LOG_tee([s EXCEPT !.tr.writes = Append(@, w),
                               !.tr.cbcalls = IF n = 0 THEN @ ELSE n],
                     i + 1, level, prefix, msg)

\* mutant: LOG without the early return of lines 126-128
LOG_formats_always(s, level, msg, failing) ==
    LET s1 == IF s.loglevels.null THEN LOG_init(s, failing) ELSE s
        f1 == s.loglevels.null /\ "levels" \in failing
        f2 == ~f1 /\ ~s1.logline /\ "logline" \in failing
        s2 == IF f1 \/ f2 THEN s1 ELSE [s1 EXCEPT !.logline = TRUE]
    IN  IF f1 \/ f2
        THEN malloc_fail(enomem(s2), "LOG")
        ELSE LOG_tee([s2 EXCEPT !.tr.formatted = @ + 1], 1, level,
                     LOG_prefix(s2, level), msg)

LOG(s, level, msg, failing) ==
    LET s1 == IF s.loglevels.null THEN LOG_init(s, failing) ELSE s
        f1 == s.loglevels.null /\ "levels" \in failing
        f2 == ~f1 /\ ~s1.logline /\ "logline" \in failing
        s2 == IF f1 \/ f2 THEN s1 ELSE [s1 EXCEPT !.logline = TRUE]
    IN  IF f1 \/ f2
        THEN malloc_fail(enomem(s2), "LOG")
        ELSE IF s2.fplist[1].fp = NULL
        THEN s2
        ELSE LOG_tee([s2 EXCEPT !.tr.formatted = @ + 1], 1, level,
                     LOG_prefix(s2, level), msg)

-----------------------------------------------------------------------------
(* Streams.  fileno of NULL or of a stream already closed is undefined; the  *)
(* call's `ub` input chooses what the undefined call does: "crash" kills the *)
(* process there, "proceed" lets fileno return -1 and the fclose that        *)
(* follows go through (a second fclose of the same stream).                  *)

fclose(s, fp) ==
    IF fp = NULL THEN s ELSE [s EXCEPT !.closed[fp] = @ + 1]

undefined_fileno(s, fp) ==
    fp = NULL \/ s.closed[fp] > 0

\* the trace counts the undefined calls the process got past
undefined(s, fp) ==
    IF undefined_fileno(s, fp) THEN [s EXCEPT !.tr.undefined = @ + 1] ELSE s

\* mutant: LOG_reset with the test of _LOG_cleanup
reset_closes_stdout(fd) ==
    fd # STDIN_FILENO /\ fd # STDERR_FILENO

\* line 160: LOG_reset spares standard output and standard error
reset_closes(fd) ==
    fd # STDOUT_FILENO /\ fd # STDERR_FILENO

\* lines 106-107: _LOG_cleanup spares standard INPUT and standard error
cleanup_closes(fd) ==
    fd # STDIN_FILENO /\ fd # STDERR_FILENO

\* lines 104-109, one run over the list from slot i on
RECURSIVE cleanup_slots(_, _, _)
cleanup_slots(s, i, ub) ==
    IF i > Len(s.fplist)
    THEN s
    ELSE LET fp == s.fplist[i].fp
         IN  IF fp = NULL
             THEN cleanup_slots(s, i + 1, ub)
             ELSE IF undefined_fileno(s, fp) /\ ub = "crash"
             THEN [s EXCEPT !.pc = "crashed"]
             ELSE LET fd == IF undefined_fileno(s, fp) THEN -1 ELSE fileno(fp)
                  IN  cleanup_slots(IF cleanup_closes(fd)
                                    THEN fclose(undefined(s, fp), fp)
                                    ELSE undefined(s, fp),
                                    i + 1, ub)

_LOG_cleanup(s, ub) ==
    cleanup_slots([s EXCEPT !.tr.cleanups = @ + 1], 1, ub)

\* exit(3): the handlers run once per registration, then the process is gone
RECURSIVE run_atexit(_, _, _)
run_atexit(s, n, ub) ==
    IF n = 0 \/ s.pc = "crashed"
    THEN s
    ELSE run_atexit(_LOG_cleanup(s, ub), n - 1, ub)

exit(s, code, ub) ==
    run_atexit([s EXCEPT !.pc = "exited", !.status = code], s.atexits, ub)

\* mutant: LOGF without the exit
LOGF_returns(s, msg, failing, ub) ==
    LOG(s, Fatal, msg, failing)

\* mutant: LOGF exits with a success status
LOGF_success(s, msg, failing, ub) ==
    exit(LOG(s, Fatal, msg, failing), EXIT_SUCCESS, ub)

\* line 97: LOGF is LOG at level 3 followed by exit(EXIT_FAILURE)
LOGF(s, msg, failing, ub) ==
    exit(LOG(s, Fatal, msg, failing), EXIT_FAILURE, ub)

-----------------------------------------------------------------------------
(* LOG_reset, src/logtee.h:158-176 *)

\* mutant: the streams are closed but the slots keep them
RECURSIVE reset_slots_kept(_, _, _)
reset_slots_kept(s, i, ub) ==
    IF i > Len(s.fplist)
    THEN s
    ELSE LET fp == s.fplist[i].fp
         IN  IF undefined_fileno(s, fp) /\ ub = "crash"
             THEN [s EXCEPT !.pc = "crashed"]
             ELSE LET fd == IF undefined_fileno(s, fp) THEN -1 ELSE fileno(fp)
                  IN  reset_slots_kept(IF reset_closes(fd)
                                       THEN fclose(undefined(s, fp), fp)
                                       ELSE undefined(s, fp),
                                       i + 1, ub)

\* mutant: the reset empties slot i and stops there
reset_slots_first(s, i, ub) ==
    LET fp == s.fplist[i].fp
    IN  IF undefined_fileno(s, fp) /\ ub = "crash"
        THEN [s EXCEPT !.pc = "crashed"]
        ELSE LET fd == IF undefined_fileno(s, fp) THEN -1 ELSE fileno(fp)
                 c  == IF reset_closes(fd)
                       THEN fclose(undefined(s, fp), fp)
                       ELSE undefined(s, fp)
             IN  [c EXCEPT !.fplist[i] = [fp |-> NULL, level |-> 0]]

\* lines 159-164
RECURSIVE reset_slots(_, _, _)
reset_slots(s, i, ub) ==
    IF i > Len(s.fplist)
    THEN s
    ELSE LET fp == s.fplist[i].fp
         IN  IF undefined_fileno(s, fp) /\ ub = "crash"
             THEN [s EXCEPT !.pc = "crashed"]
             ELSE LET fd == IF undefined_fileno(s, fp) THEN -1 ELSE fileno(fp)
                      c  == IF reset_closes(fd)
                            THEN fclose(undefined(s, fp), fp)
                            ELSE undefined(s, fp)
                  IN  reset_slots([c EXCEPT !.fplist[i] = [fp |-> NULL, level |-> 0]],
                                  i + 1, ub)

\* line 169: free(_loglevels); the trace notes how many entries beyond the
\* built-in five the freed array held
freed(s) ==
    [s EXCEPT !.tr.customs =
                 IF s.numlevels > Len(_builtin_levels)
                 THEN s.numlevels - Len(_builtin_levels) ELSE 0]

\* mutant: the registry is left as it is
reset_levels_kept(s, failing) ==
    s

\* lines 168-175: the count is set to 5 on both branches of the malloc test
reset_levels(s, failing) ==
    IF s.loglevels.null
    THEN s
    ELSE IF "reset" \in failing
    THEN [malloc_fail(enomem(freed(s)), "LOG_reset")
            EXCEPT !.loglevels = [null |-> TRUE, arr |-> <<>>],
                   !.numlevels = Len(_builtin_levels)]
    ELSE [freed(s) EXCEPT !.loglevels = [null |-> FALSE, arr |-> _builtin_levels],
                          !.numlevels = Len(_builtin_levels)]

LOG_reset(s, failing, ub) ==
    LET s1 == reset_slots(s, 1, ub)
    IN  IF s1.pc = "crashed"
        THEN s1
        ELSE reset_levels([s1 EXCEPT !.prefix_callback = NULL], failing)

-----------------------------------------------------------------------------
(* LOG_teefile and LOG_teepath, src/logtee.h:178-215 *)

\* mutant: the sink always goes to the head slot
teefile_slots_head(s, i, file, level, failing) ==
    [s EXCEPT !.fplist[1] = [fp |-> file, level |-> level]]

\* lines 186-201: first empty slot, else a new node after the last slot
RECURSIVE teefile_slots(_, _, _, _, _)
teefile_slots(s, i, file, level, failing) ==
    IF s.fplist[i].fp = NULL
    THEN [s EXCEPT !.fplist[i] = [fp |-> file, level |-> level]]
    ELSE IF i = Len(s.fplist)
    THEN IF "node" \in failing
         THEN LOG(enomem(s), Error, "LOG_teefile", failing)
         ELSE [s EXCEPT !.fplist = Append(@, [fp |-> file, level |-> level])]
    ELSE teefile_slots(s, i + 1, file, level, failing)

\* lines 180-185: a failed fseek or fcntl is reported through PLOGW
LOG_teefile(s, file, level, io, failing) ==
    IF file = NULL
    THEN s
    ELSE LET std == fileno(file) = STDOUT_FILENO \/ fileno(file) = STDERR_FILENO
             s1  == IF ~std /\ "fseek" \in io
                    THEN LOG(failure(s), Warning, "LOG_teefile", failing) ELSE s
             s2  == IF ~std /\ "fcntl" \in io
                    THEN LOG(failure(s1), Warning, "LOG_teefile", failing) ELSE s1
         IN  teefile_slots(s2, 1, file, level, failing)

\* lines 204-215: `opened` is what fopen returned, NULL when it failed
LOG_teepath(s, path, opened, level, io, failing) ==
    IF path = NULL
    THEN LOG_teefile(s, "stderr", level, io, failing)
    ELSE IF path = "-"
    THEN LOG_teefile(s, "stdout", level, io, failing)
    ELSE IF opened = NULL
    THEN LOG_teefile(LOG(failure(s), Warning, "LOG_teepath", failing), NULL,
                     level, io, failing)
    ELSE LOG_teefile(s, opened, level, io, failing)

-----------------------------------------------------------------------------
(* LOG_addlevel and LOG_prefixcallback, src/logtee.h:217-234 *)

\* realloc(_loglevels, n entries): the old entries that fit are kept, the
\* rest of the block was never written; g is the level such memory reads as
realloc(ll, n, g) ==
    LET old == IF ll.null THEN <<>> ELSE ll.arr
    IN  [null |-> FALSE,
         arr |-> [i \in 1..n |-> IF i <= Len(old)
                                  THEN old[i]
                                  ELSE [level |-> g, prefix |-> Indeterminate]]]

\* lines 222-229: on failure PLOGE runs first (and LOG re-seeds the registry,
\* the pointer being NULL), then the count is zeroed
addlevel_grow(s, level, prefix, failing, g) ==
    LET n == s.numlevels + 1
    IN  IF "realloc" \in failing
        THEN [LOG([enomem(s) EXCEPT !.loglevels = [null |-> TRUE, arr |-> <<>>],
                                     !.numlevels = n],
                  Error, "LOG_addlevel", failing)
                EXCEPT !.numlevels = 0]
        ELSE [s EXCEPT !.loglevels =
                           [realloc(s.loglevels, n, g)
                              EXCEPT !.arr[n] = [level |-> level,
                                                 prefix |-> prefix]],
                       !.numlevels = n]

\* mutant: the rejection warns but does not return
LOG_addlevel_falls_through(s, level, prefix, failing, g) ==
    addlevel_grow(IF prefix \in BadPrefixes
                  THEN LOG(s, Warning, "LOG_addlevel", failing)
                  ELSE s,
                  level, prefix, failing, g)

LOG_addlevel(s, level, prefix, failing, g) ==
    IF prefix \in BadPrefixes
    THEN LOG(s, Warning, "LOG_addlevel", failing)
    ELSE addlevel_grow(s, level, prefix, failing, g)

LOG_prefixcallback(s, cback) ==
    [s EXCEPT !.prefix_callback = IF cback # NULL THEN cback ELSE @]

-----------------------------------------------------------------------------
(* The calls a program makes *)

Running == pc = "running"

Bounded(s) ==
    /\ Len(s.fplist) <= MaxSlots
    /\ s.tr.failures = 0 \/ faults < MaxFaults

Open(fp) == closed[fp] = 0

InSlot(fp) == \E i \in 1..Len(_fplist) : _fplist[i].fp = fp

\* the allocation failures that make a difference to a call that takes
\* the sites in `sites`
Failures(sites) ==
    IF faults < MaxFaults
    THEN {f \in SUBSET sites : Cardinality(f \cap {"levels", "logline"}) <= 1}
    ELSE {{}}

StreamFailures ==
    IF faults < MaxFaults THEN {{}, {"fseek"}, {"fcntl"}} ELSE {{}}

\* the caller registers its entries in order, each once
Registered(e) ==
    \E i \in 1..Len(_loglevels.arr) : i <= _numlevels /\ _loglevels.arr[i] = e

NextToRegister(m) ==
    /\ ~Registered(NewLevels[m])
    /\ \A n \in 1..(m - 1) : Registered(NewLevels[n])

CallLOG ==
    /\ Running
    /\ \E level \in LogLevels, failing \in Failures({"levels", "logline"}) :
         LET s == LOG(Cur, level, "main", failing)
         IN  Bounded(s) /\ Commit(s, "LOG", level, "")

CallLOGF ==
    /\ Running
    /\ \E failing \in Failures({"levels", "logline"}), ub \in {"crash", "proceed"} :
         LET s == LOGF(Cur, "main", failing, ub)
         IN  Bounded(s) /\ Commit(s, "LOGF", Fatal, "")

CallLOG_reset ==
    /\ Running
    /\ \E failing \in Failures({"reset"}), ub \in {"crash", "proceed"} :
         LET s == LOG_reset(Cur, failing, ub)
         IN  Bounded(s) /\ Commit(s, "LOG_reset", 0, "")

CallLOG_teefile ==
    /\ Running
    /\ \E k \in {x \in Sinks : Open(x.fp)} \cup {[fp |-> NULL, level |-> Info]},
          io \in StreamFailures,
          failing \in Failures({"levels", "logline", "node"}) :
         LET s == LOG_teefile(Cur, k.fp, k.level, io, failing)
         IN  /\ k.fp \in Files \/ io = {}
             /\ Bounded(s)
             /\ Commit(s, "LOG_teefile", k.level, k.fp)

\* the path that names a sink's stream; a path that opens gives a stream
\* no slot holds yet
PathOf(fp) ==
    CASE fp = "stderr" -> NULL
      [] fp = "stdout" -> "-"
      [] OTHER -> fp

CallLOG_teepath ==
    /\ Running
    /\ \E k \in Sinks,
          opened \in {fp \in Files : Open(fp) /\ ~InSlot(fp)} \cup {NULL},
          io \in StreamFailures,
          failing \in Failures({"levels", "logline", "node"}) :
         LET s == LOG_teepath(Cur, PathOf(k.fp), opened, k.level, io, failing)
             fp == IF k.fp \in Files THEN opened ELSE k.fp
         IN  /\ opened \in {k.fp, NULL}
             /\ opened # NULL \/ io = {}
             /\ Bounded(s)
             /\ Commit(s, "LOG_teepath", k.level, fp)

CallLOG_addlevel ==
    /\ Running
    /\ \E e \in {NewLevels[n] : n \in {m \in 1..Len(NewLevels) : NextToRegister(m)}}
                  \cup {[level |-> Custom, prefix |-> b] : b \in BadPrefixes},
          failing \in Failures({"levels", "logline", "realloc"}),
          g \in IndeterminateLevels :
         LET s == LOG_addlevel(Cur, e.level, e.prefix, failing, g)
         IN  Bounded(s) /\ Commit(s, "LOG_addlevel", e.level, e.prefix)

CallLOG_prefixcallback ==
    /\ Running
    /\ \E cback \in {NULL, "cback"} :
         Commit(LOG_prefixcallback(Cur, cback), "LOG_prefixcallback", 0, cback)

\* main returns: exit(EXIT_SUCCESS)
ReturnFromMain ==
    /\ Running
    /\ \E ub \in {"crash", "proceed"} :
         Commit(exit(Cur, EXIT_SUCCESS, ub), "exit", 0, "")

Next ==
    \/ CallLOG
    \/ CallLOGF
    \/ CallLOG_reset
    \/ CallLOG_teefile
    \/ CallLOG_teepath
    \/ CallLOG_addlevel
    \/ CallLOG_prefixcallback
    \/ ReturnFromMain

Spec == Init /\ [][Next]_vars

-----------------------------------------------------------------------------
(* What the last call wrote *)

Writes == last.tr.writes

Slots == 1..Len(_fplist)

Occupied(i) == _fplist[i].fp # NULL

NoSink == \A i \in Slots : ~Occupied(i)

\* the number of lines the last call wrote through slot i
Copies(i) ==
    Cardinality({j \in 1..Len(Writes) : Writes[j].slot = i})

\* the last call reported no allocation failure on stderr, so the LOG in it
\* got as far as composing its line
Composed == last.tr.diag = <<>>

\* one line through slot i, to the stream the slot holds, at that level
OneCopy(i, level) ==
    /\ Copies(i) = 1
    /\ \A j \in 1..Len(Writes) :
         Writes[j].slot = i =>
            /\ Writes[j].fp = _fplist[i].fp
            /\ Writes[j].level = level
            /\ Writes[j].live

\* every occupied slot got one line if its threshold admits the level, and
\* nothing otherwise
Filtered(level) ==
    \A i \in Slots :
       Occupied(i) =>
          IF level >= _fplist[i].level THEN OneCopy(i, level) ELSE Copies(i) = 0

-----------------------------------------------------------------------------
(* C1: a LOG call at level L made while some slot holds a sink, and which   *)
(* composes its line (neither lazy allocation of the call fails), writes     *)
(* exactly one copy of the line through every occupied slot whose threshold  *)
(* T satisfies L >= T and nothing through a slot with L < T; a stream held   *)
(* by two slots gets one copy for each.                                      *)
C1_ThresholdFilter ==
    (last.op = "LOG" /\ ~NoSink /\ Composed) => Filtered(last.level)

\* one LOG at Warning with a sink at Info and a sink at Fatal: the first
\* gets the line, the second does not
C1_Witness ==
    /\ last.op = "LOG"
    /\ last.level = Warning
    /\ Composed
    /\ \E i, j \in Slots :
         /\ Occupied(i) /\ _fplist[i].level = Info /\ Copies(i) = 1
         /\ Occupied(j) /\ _fplist[j].level = Fatal /\ Copies(j) = 0

-----------------------------------------------------------------------------
BuiltinPrefix(level) ==
    IF \E i \in 1..Len(_builtin_levels) : _builtin_levels[i].level = level
    THEN (CHOOSE e \in {_builtin_levels[i] : i \in 1..Len(_builtin_levels)} :
             e.level = level).prefix
    ELSE ""

-----------------------------------------------------------------------------
(* C3: when LOG_reset returns every slot is empty and the callback is       *)
(* unset; while every slot is empty no call writes to a sink, and the slots  *)
(* stay empty until LOG_teefile / LOG_teepath is given a non-null stream,    *)
(* which then sits in the head slot, where LOG looks for it.                 *)
AddsSink(l) ==
    l.op \in {"LOG_teefile", "LOG_teepath"} /\ l.arg # NULL

C3_ResetSilences ==
    [][ /\ (last'.op = "LOG_reset" /\ pc' = "running") =>
              /\ \A i \in 1..Len(_fplist') : _fplist'[i].fp = NULL
              /\ _prefix_callback' = NULL
        /\ NoSink =>
              /\ last'.tr.writes = <<>>
              /\ IF AddsSink(last')
                 THEN _fplist'[1].fp = last'.arg
                 ELSE \A i \in 1..Len(_fplist') : _fplist'[i].fp = NULL ]_vars

\* a LOG after a reset that emptied two slots
C3_Witness ==
    /\ last.op = "LOG"
    /\ Len(_fplist) = 2
    /\ NoSink
    /\ Writes = <<>>
    /\ _prefix_callback = NULL

-----------------------------------------------------------------------------
-----------------------------------------------------------------------------
-----------------------------------------------------------------------------
(* C6 (as stated): when the exit-time teardown has run, every file still    *)
(* held by a slot is closed, and neither standard output nor standard error  *)
(* has been closed, registered as sinks or not (stated here for the exits    *)
(* in which no undefined call is made).                                      *)
C6_Original ==
    (pc = "exited" /\ last.tr.cleanups >= 1 /\ last.tr.undefined = 0) =>
       /\ \A i \in Slots : _fplist[i].fp \in Files => closed[_fplist[i].fp] >= 1
       /\ closed["stdout"] = 0
       /\ closed["stderr"] = 0

-----------------------------------------------------------------------------
(* C7 (as stated): the first use, a sink addition or a log call, leaves the *)
(* registry holding the built-in defaults and the cleanup hook registered    *)
(* (stated here for first uses in which no library call fails).              *)
Uninitialized ==
    _loglevels.null /\ _numlevels = 0 /\ atexits = 0 /\ ~logline

-----------------------------------------------------------------------------
(* C8 (as stated): over any sequence of calls, allocation failures          *)
(* included, the cleanup hook is never registered a second time.             *)
C8_Original ==
    atexits <= 1

-----------------------------------------------------------------------------
(* C9: every line a LOG call writes at priority P carries the prefix of the *)
(* registry entry with the highest index (the most recently appended) among  *)
(* those whose priority is P, so a second registration of a priority and a   *)
(* registration of a built-in priority both take over; with no such entry    *)
(* the prefix is empty and the line is written all the same.                 *)
Matches(P) ==
    IF _loglevels.null
    THEN {}
    ELSE {i \in 1.._numlevels : _loglevels.arr[i].level = P}

LastMatch(P) ==
    IF Matches(P) = {}
    THEN ""
    ELSE _loglevels.arr[CHOOSE i \in Matches(P) :
                           \A k \in Matches(P) : k <= i].prefix

C9_LastMatchWins ==
    last.op \in {"LOG", "LOGF"} =>
       /\ \A j \in 1..Len(Writes) :
            Writes[j].prefix = LastMatch(Writes[j].level)
       /\ (Matches(last.level) = {} /\ ~NoSink /\ Composed) =>
             /\ Filtered(last.level)
             /\ \A j \in 1..Len(Writes) : Writes[j].prefix = ""

\* Warning registered twice on top of the built-in entry: the line carries
\* the prefix of the second registration
C9_Witness ==
    /\ last.op = "LOG"
    /\ last.level = Warning
    /\ Writes # <<>>
    /\ Registered(NewLevels[1])
    /\ Registered(NewLevels[2])
    /\ \A j \in 1..Len(Writes) : Writes[j].prefix = NewLevels[2].prefix

-----------------------------------------------------------------------------
(* C10 (as stated): LOG_addlevel with a null or empty prefix leaves the     *)
(* registry's entries and count as they were, in every state.                *)
Rejected(l) ==
    l.op = "LOG_addlevel" /\ l.arg \in BadPrefixes

C10_Original ==
    [][ Rejected(last') => UNCHANGED <<_loglevels, _numlevels>> ]_vars

(* C10 (amended): LOG_addlevel with a null or empty prefix never adds the   *)
(* entry.  A registry that is allocated keeps its entries and its count.  A  *)
(* registry that is not allocated yet is seeded with the five built-in       *)
(* levels by the warning the rejection logs, unless that allocation fails,   *)
(* which leaves it unallocated.                                              *)
C10_RejectedPrefix ==
    [][ Rejected(last') =>
          IF ~_loglevels.null
          THEN UNCHANGED <<_loglevels, _numlevels>>
          ELSE \/ /\ ~_loglevels'.null
                  /\ _loglevels'.arr = _builtin_levels
                  /\ _numlevels' = 5
               \/ /\ last'.tr.diag # <<>>
                  /\ UNCHANGED <<_loglevels, _numlevels>> ]_vars

\* a rejected call on a registry that holds a custom entry
C10_Witness ==
    /\ Rejected(last)
    /\ _numlevels = 6
    /\ Registered(NewLevels[1])

-----------------------------------------------------------------------------
(* C11 (as stated): when the realloc inside LOG_addlevel fails, the         *)
(* registry is left as it was before the call: same entries, same order,     *)
(* same count, so that every priority resolves to the prefix it resolved to  *)
(* before (stated here for a call in which the realloc is the only           *)
(* allocation that fails, made on a registry that is allocated).             *)
FailedGrowth(l) ==
    l.op = "LOG_addlevel" /\ l.arg \notin BadPrefixes /\ l.tr.enomem = 1

C11_Original ==
    [][ (FailedGrowth(last') /\ ~_loglevels.null) =>
          /\ UNCHANGED <<_loglevels, _numlevels>>
          /\ \A level \in LogLevels :
               LOG_prefix([loglevels |-> _loglevels', numlevels |-> _numlevels'],
                          level) = LOG_prefix(Cur, level) ]_vars

-----------------------------------------------------------------------------
(* C12: a LOG call made while no slot holds a sink returns before the       *)
(* message is formatted: it formats nothing, does not call the prefix        *)
(* callback, writes through no slot, and leaves the sink list, the callback  *)
(* and the streams as they were.  What it may change is the registry, the    *)
(* line buffer and the exit hook (lazy initialisation); a diagnostic goes to *)
(* stderr only when one of those allocations fails.                          *)
C12_NoSinkNoFormatting ==
    [][ (NoSink /\ last'.op = "LOG") =>
          /\ last'.tr.formatted = 0
          /\ last'.tr.cbcalls = 0
          /\ last'.tr.writes = <<>>
          /\ last'.tr.enomem = 0 => last'.tr.diag = <<>>
          /\ UNCHANGED <<_fplist, _prefix_callback, closed, pc, status>>
          /\ logline => UNCHANGED logline
          /\ ~_loglevels.null => UNCHANGED <<_loglevels, _numlevels, atexits>> ]_vars

\* a LOG call with a callback set and no sink: the first such call also
\* initialised the registry
C12_Witness ==
    /\ last.op = "LOG"
    /\ NoSink
    /\ _prefix_callback # NULL
    /\ last.tr.formatted = 0
    /\ ~_loglevels.null
    /\ atexits = 1

-----------------------------------------------------------------------------
(* C13 (as stated): with a prefix callback set, a LOG call that writes to   *)
(* at least one sink has called the callback exactly once, however many      *)
(* sinks were eligible, and every line it wrote carries the result of that   *)
(* one call.                                                                 *)
C13_Original ==
    (/\ last.op \in {"LOG", "LOGF"}
     /\ _prefix_callback # NULL
     /\ Writes # <<>>) =>
       /\ last.tr.cbcalls = 1
       /\ \A j \in 1..Len(Writes) : Writes[j].cb = 1

-----------------------------------------------------------------------------
(* C14 (as stated): an allocation failure of the facility is reported only  *)
(* on stderr itself and never as a line written through the sinks: no line   *)
(* a call writes through a slot is the report of a failed malloc or realloc. *)
\* the lines of logtee.h:193 (LOG_teefile) and logtee.h:224 (LOG_addlevel)
AllocationReport(w) ==
    w.level = Error /\ w.msg \in {"LOG_teefile", "LOG_addlevel"}

C14_Original ==
    \A j \in 1..Len(Writes) : ~AllocationReport(Writes[j])

-----------------------------------------------------------------------------
(* C15: a LOG_reset that returns has closed every stream held by a slot     *)
(* other than standard output and standard error, and has closed neither of  *)
(* those two, in however many slots they sat; when every slot held a stream  *)
(* that was open, each such file was closed exactly once and no other        *)
(* stream was touched.                                                       *)
Held(fp) == \E i \in Slots : _fplist[i].fp = fp

C15_ResetCloses ==
    [][ (last'.op = "LOG_reset" /\ pc' = "running") =>
          /\ \A f \in Files : Held(f) => closed'[f] >= closed[f] + 1
          /\ closed'["stdout"] = closed["stdout"]
          /\ closed'["stderr"] = closed["stderr"]
          /\ last'.tr.undefined = 0 =>
                \A f \in Files :
                   closed'[f] = IF Held(f) THEN closed[f] + 1 ELSE closed[f] ]_vars

\* a reset over two occupied slots, one holding the log file and the other a
\* standard stream: the file is closed, the standard streams are not
C15_Witness ==
    /\ last.op = "LOG_reset"
    /\ pc = "running"
    /\ Len(_fplist) = 2
    /\ last.tr.undefined = 0
    /\ closed["log.txt"] = 1
    /\ closed["stdout"] = 0
    /\ closed["stderr"] = 0

-----------------------------------------------------------------------------
(* C16 (as stated): a LOG_addlevel with a non-empty prefix in which no      *)
(* allocation fails appends: the registry afterwards is the registry before  *)
(* the call (the five built-ins when nothing was registered yet) followed    *)
(* by the new entry, so every built-in priority other than the new entry's   *)
(* still resolves to its built-in prefix (stated here for calls made while   *)
(* no earlier library call has failed).                                      *)
Appends(l) ==
    l.op = "LOG_addlevel" /\ l.arg \notin BadPrefixes /\ l.tr.failures = 0

RegistryBefore ==
    IF _loglevels.null /\ _numlevels = 0
    THEN _builtin_levels
    ELSE SubSeq(_loglevels.arr, 1, _numlevels)

C16_Original ==
    [][ (Appends(last') /\ faults = 0) =>
          /\ ~_loglevels'.null
          /\ _numlevels' = Len(RegistryBefore) + 1
          /\ SubSeq(_loglevels'.arr, 1, _numlevels') =
                Append(RegistryBefore, [level |-> last'.level, prefix |-> last'.arg])
          /\ \A i \in 1..Len(_builtin_levels) :
               _builtin_levels[i].level # last'.level =>
                  LOG_prefix([loglevels |-> _loglevels', numlevels |-> _numlevels'],
                             _builtin_levels[i].level) = _builtin_levels[i].prefix ]_vars

-----------------------------------------------------------------------------
(* C17: LOG_teefile / LOG_teepath given a stream, with no allocation        *)
(* failing, store the stream and the threshold in the first empty slot in    *)
(* list order, or in one slot appended to the list when no slot is empty,    *)
(* and change no other slot; given no stream (a null handle, or a path that  *)
(* cannot be opened) they leave the list as it was.  A failed fseek or fcntl *)
(* on the stream does not change this.                                       *)
TeeCall(l) == l.op \in {"LOG_teefile", "LOG_teepath"}

Empty == {i \in Slots : ~Occupied(i)}

FirstEmpty == CHOOSE i \in Empty : \A k \in Empty : i <= k

C17_TeefileFrame ==
    [][ TeeCall(last') =>
          LET sink == [fp |-> last'.arg, level |-> last'.level]
          IN  IF last'.arg = NULL
              THEN UNCHANGED _fplist
              ELSE last'.tr.enomem = 0 =>
                      IF Empty # {}
                      THEN _fplist' = [_fplist EXCEPT ![FirstEmpty] = sink]
                      ELSE _fplist' = Append(_fplist, sink) ]_vars

\* a call whose fseek or fcntl failed, and which stored its stream in the
\* second slot behind an occupied head
C17_Witness ==
    /\ TeeCall(last)
    /\ last.arg # NULL
    /\ last.tr.failures > 0
    /\ last.tr.enomem = 0
    /\ Len(_fplist) = 2
    /\ _fplist[2] = [fp |-> last.arg, level |-> last.level]
    /\ Occupied(1)

-----------------------------------------------------------------------------
(* C18 (as stated): LOG_reset can be called in every reachable state, also  *)
(* with no sink ever added, with empty slots in the list, and twice in a     *)
(* row: it never inspects the handle of an empty slot, and it returns.       *)
C18_Original ==
    [][ last'.op = "LOG_reset" =>
          /\ pc' = "running"
          /\ Empty # {} => last'.tr.undefined = 0 ]_vars

-----------------------------------------------------------------------------
(* C19: as long as the process has not crashed, the occupied slots are the   *)
(* first slots of the list: no occupied slot follows an empty one.  So the   *)
(* head slot is empty exactly when no slot holds a stream, and a LOG call    *)
(* that composes its line while some slot holds a stream reaches the tee     *)
(* loop.                                                                     *)
C19_OccupiedPrefix ==
    pc # "crashed" =>
       /\ \A i \in Slots : (Occupied(i) /\ i > 1) => Occupied(i - 1)
       /\ ~Occupied(1) <=> NoSink
       /\ (last.op = "LOG" /\ ~NoSink /\ Composed) => last.tr.formatted = 1

\* after a reset of a two-slot list a sink was added: it sits in the head and
\* the second slot is empty
C19_Witness ==
    /\ pc = "running"
    /\ TeeCall(last)
    /\ Len(_fplist) = 2
    /\ Occupied(1)
    /\ ~Occupied(2)

-----------------------------------------------------------------------------
(* C20 (as stated): over the whole life of the process the facility calls   *)
(* fclose at most once on any stream it owns: also when the stream sits in   *)
(* more than one slot at a reset or at the exit-time teardown, and when the  *)
(* teardown runs more than once (stated here for the runs in which no       *)
(* library call has failed).                                                 *)
C20_Original ==
    faults = 0 => \A f \in Files : closed[f] <= 1

====
